---- MODULE Spec2Model ----
(***************************************************************************)
(* Quadtree image compression (imagepartition/quad_tree.py, leaf_node.py,  *)
(* internal_node.py).                                                      *)
(*                                                                         *)
(* A raster is a numpy array: a shape and a flat row-major store of       *)
(* integer channel values (np.asarray of a PIL image is uint8).  A view    *)
(* produced by np.array_split aliases the store; it is a rectangle         *)
(* [r0, nr, c0, nc] of the store, with all channels.  The recursion of     *)
(* QuadTree.construct is unfolded into one step per call, taken in the     *)
(* order in which the calls are made (depth first, quadrants 0..3).        *)
(***************************************************************************)
EXTENDS Integers, Sequences, FiniteSets, TLC

\* Largest number of rows and of columns of an input raster.
MaxDim == 3
\* Largest finite max_depth argument tried.
MaxDepthArg == 2
\* Largest number of highlight_leaves() calls on one tree.
MaxHighlights == 2
\* Cap on the recursion depth of construct (only a run-away recursion reaches it).
MaxRecursion == 3
\* float('inf'), the "no limit" max_depth of main.py; INF - 1 = INF.
INF == 1000

VARIABLES
  raster,       \* the caller's numpy array: [shape, data]
  orig,         \* history: raster.data as passed to QuadTree()
  max_depth,    \* argument of QuadTree()
  max_std_dev,  \* argument of QuadTree()
  phase,        \* "new", "constructing", "built"
  pending,      \* calls of construct still to run, next first
  nodes,        \* the tree: path from the root |-> node
  written,      \* history: store indices written by leaf averaging
  hl,           \* number of highlight_leaves() calls made
  height_ret    \* last value returned by get_height(), NoRet before

vars == <<raster, orig, max_depth, max_std_dev, phase, pending, nodes, written, hl, height_ret>>

NoRet == 0 - 1

RECURSIVE Prod(_)
RECURSIVE SumFirst(_, _, _, _, _)
RECURSIVE get_height_helper(_, _)
RECURSIVE highlight_leaves_helper(_, _, _, _)
RECURSIVE highlight_quadrants(_, _, _, _, _)

----------------------------------------------------------------------------
(* numpy arrays and views *)

\* ndarray.size: the product of the shape.
Prod(s) == IF s = <<>> THEN 1 ELSE Head(s) * Prod(Tail(s))

Max(S) == CHOOSE x \in S : \A y \in S : y <= x

\* Store index (1-based) of channel ch of the pixel at row r, column c.
Index(shape, r, c, ch) == (r * shape[2] + c) * shape[3] + ch + 1

Rows(reg) == reg.r0 .. (reg.r0 + reg.nr - 1)
Cols(reg) == reg.c0 .. (reg.c0 + reg.nc - 1)
Pixels(reg) == Rows(reg) \X Cols(reg)

\* The view of the whole raster.
Whole(shape) == [r0 |-> 0, nr |-> shape[1], c0 |-> 0, nc |-> shape[2]]

\* raster.size of a view.
ViewSize(shape, reg) == reg.nr * reg.nc * shape[3]

\* The pixel <<row, column>> and the channel that store index i belongs to.
CellPixel(shape, i) ==
  <<((i - 1) \div shape[3]) \div shape[2], ((i - 1) \div shape[3]) % shape[2]>>

CellChannel(shape, i) == (i - 1) % shape[3]

\* Store indices of the given channels of the pixels of a view.
Cells(shape, reg, chans) ==
  { Index(shape, p[1], p[2], ch) : p \in Pixels(reg), ch \in chans }

\* The k-th pixel (k = 0, 1, ...) of a view, in row-major order.
PixelAt(reg, k) == <<reg.r0 + (k \div reg.nc), reg.c0 + (k % reg.nc)>>

\* Sum of the pow-th powers of one channel over the first k pixels of a view.
SumFirst(a, reg, ch, pow, k) ==
  IF k = 0 THEN 0
  ELSE LET px == PixelAt(reg, k - 1)
           v == a.data[Index(a.shape, px[1], px[2], ch)]
       IN (IF pow = 2 THEN v * v ELSE v) + SumFirst(a, reg, ch, pow, k - 1)

\* Sum of one channel over a view.
ChannelSum(a, reg, ch) == SumFirst(a, reg, ch, 1, reg.nr * reg.nc)

ChannelSumSq(a, reg, ch) == SumFirst(a, reg, ch, 2, reg.nr * reg.nc)

\* Faulty variant: the second section starts at n // 2, so the two sections
\* of an odd length share an item.
array_split_overlap(n) ==
  LET first == (n \div 2) + (n % 2)
  IN << [off |-> 0, len |-> first], [off |-> n \div 2, len |-> n \div 2] >>

\* np.array_split(n items, 2): n % 2 sections of n // 2 + 1, then sections of n // 2.
array_split(n) ==
  LET first == (n \div 2) + (n % 2)
  IN << [off |-> 0, len |-> first], [off |-> first, len |-> n \div 2] >>

\* Faulty variant: columns split first, then rows (slots 1 and 2 exchanged).
Quadrants_colmajor(reg) ==
  [k \in 1..4 |->
     LET rs == (array_split(reg.nr))[((k - 1) % 2) + 1]
         cs == (array_split(reg.nc))[((k - 1) \div 2) + 1]
     IN [r0 |-> reg.r0 + rs.off, nr |-> rs.len, c0 |-> reg.c0 + cs.off, nc |-> cs.len]]

\* Faulty variant: the views are taken at the origin of the store, not of reg.
Quadrants_abs(reg) ==
  [k \in 1..4 |->
     LET rs == (array_split(reg.nr))[((k - 1) \div 2) + 1]
         cs == (array_split(reg.nc))[((k - 1) % 2) + 1]
     IN [r0 |-> rs.off, nr |-> rs.len, c0 |-> cs.off, nc |-> cs.len]]

\* The four views of construct, rows split first, then columns.
Quadrants(reg) ==
  [k \in 1..4 |->
     LET rs == (array_split(reg.nr))[((k - 1) \div 2) + 1]
         cs == (array_split(reg.nc))[((k - 1) % 2) + 1]
     IN [r0 |-> reg.r0 + rs.off, nr |-> rs.len, c0 |-> reg.c0 + cs.off, nc |-> cs.len]]

----------------------------------------------------------------------------
(* QuadTree.check_homogeneity *)

\* Faulty variant: val >= threshold.
StdExceeds_ge(a, reg, ch, threshold) ==
  LET n == reg.nr * reg.nc
      s == ChannelSum(a, reg, ch)
      q == ChannelSumSq(a, reg, ch)
  IN IF n = 0 THEN FALSE
     ELSE IF threshold < 0 THEN TRUE
     ELSE n * q - s * s >= threshold * threshold * n * n

\* np.std(raster, (0, 1))[ch] > threshold, with std^2 = (n*sum(x^2) - sum(x)^2) / n^2.
StdExceeds(a, reg, ch, threshold) ==
  LET n == reg.nr * reg.nc
      s == ChannelSum(a, reg, ch)
      q == ChannelSumSq(a, reg, ch)
  IN IF n = 0 THEN FALSE
     ELSE IF threshold < 0 THEN TRUE
     ELSE n * q - s * s > threshold * threshold * n * n

check_homogeneity(a, reg, threshold) ==
  \A ch \in 0 .. (a.shape[3] - 1) : ~StdExceeds(a, reg, ch, threshold)

----------------------------------------------------------------------------
(* LeafNode *)

\* The value the store holds after pixels[row][col][ch] = rgb[ch]:
\* the float mean, truncated by the assignment into the integer array.
StoredMean(a, reg, ch) == ChannelSum(a, reg, ch) \div (reg.nr * reg.nc)

\* The channels LeafNode writes.
ColorChannels == 0 .. 2

\* Faulty variant: pixels[row][col] = rgb, which assigns every channel.
average_pixels_allch(a, reg) ==
  [i \in DOMAIN a.data |->
     IF CellPixel(a.shape, i) \in Pixels(reg)
     THEN StoredMean(a, reg, CellChannel(a.shape, i)) ELSE a.data[i]]

average_pixels(a, reg) ==
  [i \in DOMAIN a.data |->
     IF CellPixel(a.shape, i) \in Pixels(reg) /\ CellChannel(a.shape, i) \in ColorChannels
     THEN StoredMean(a, reg, CellChannel(a.shape, i)) ELSE a.data[i]]

\* The guard of LeafNode.__init__.
NeedsAveraging(reg) == reg.nr # 1 /\ reg.nc # 1

\* LeafNode.__init__: the store after the constructor ran on the view.
LeafNode_init(a, reg) ==
  IF NeedsAveraging(reg) THEN average_pixels(a, reg) ELSE a.data

\* Store indices LeafNode.__init__ assigns.
LeafNode_writes(a, reg) ==
  IF NeedsAveraging(reg) THEN Cells(a.shape, reg, ColorChannels) ELSE {}

\* The pixels of the view on its outer rows and columns.
Border(reg) ==
  { p \in Pixels(reg) :
      \/ p[1] - reg.r0 = 0
      \/ p[2] - reg.c0 = 0
      \/ p[1] - reg.r0 = reg.nr - 1
      \/ p[2] - reg.c0 = reg.nc - 1 }

\* Faulty variant: the border is darkened (halved), not set to black.
highlight_border_darken(shape, data, reg) ==
  [i \in DOMAIN data |->
     IF CellPixel(shape, i) \in Border(reg) /\ CellChannel(shape, i) \in ColorChannels
     THEN data[i] \div 2 ELSE data[i]]

highlight_border(shape, data, reg) ==
  [i \in DOMAIN data |->
     IF CellPixel(shape, i) \in Border(reg) /\ CellChannel(shape, i) \in ColorChannels
     THEN 0 ELSE data[i]]

----------------------------------------------------------------------------
(* Tree nodes.  A node is [kind, reg]; reg is the view construct was called *)
(* on (LeafNode.pixels for a leaf).  The children of the node at path p are *)
(* at Append(p, i), i = 0..3, as InternalNode.quadrants[i].                 *)

NoneNode(reg) == [kind |-> "None", reg |-> reg]
LeafNode(reg) == [kind |-> "LeafNode", reg |-> reg]
InternalNode(reg) == [kind |-> "InternalNode", reg |-> reg]

get_quadrant(t, p, i) == t[Append(p, i)]

\* Faulty variant: max(subtree_heights), the edge to the child not counted.
CombineHeights_nosucc(hs) == Max({ hs[i] : i \in DOMAIN hs })

\* max(subtree_heights) + 1
CombineHeights(hs) == Max({ hs[i] : i \in DOMAIN hs }) + 1

get_height_helper(t, p) ==
  IF t[p].kind = "None" \/ t[p].kind = "LeafNode" THEN 0
  ELSE CombineHeights(
         [i \in 0..3 |->
            IF get_quadrant(t, p, i).kind # "None"
            THEN get_height_helper(t, Append(p, i)) ELSE 0])

get_height(t) == get_height_helper(t, <<>>)

\* The store after highlighting quadrants i..3 of the internal node at p.
highlight_quadrants(t, shape, data, p, i) ==
  IF i > 3 THEN data
  ELSE highlight_quadrants(t, shape,
         IF get_quadrant(t, p, i).kind # "None"
         THEN highlight_leaves_helper(t, shape, data, Append(p, i)) ELSE data,
         p, i + 1)

highlight_leaves_helper(t, shape, data, p) ==
  IF t[p].kind = "LeafNode" THEN highlight_border(shape, data, t[p].reg)
  ELSE highlight_quadrants(t, shape, data, p, 0)

highlight_leaves(t, shape, data) ==
  IF t[<<>>].kind # "None" THEN highlight_leaves_helper(t, shape, data, <<>>) ELSE data

----------------------------------------------------------------------------
(* Inputs *)

\* Colours of the input pixels (R, G, B, A): the base colour, one close to it
\* and one far from it.
Palette == << <<4, 4, 4, 7>>, <<5, 4, 6, 7>>, <<9, 0, 4, 2>> >>

ChanVal(k, ch) == IF ch < 4 THEN Palette[k + 1][ch + 1] ELSE 0

Shapes3D ==
  { <<h, w, c>> : h \in 0..MaxDim, w \in 0..MaxDim, c \in {3, 4} } \cup { <<2, 2, 0>> }

\* Arrays that are not 3-dimensional.
ShapesOther == { <<2>>, <<1, 1>>, <<2, 3>>, <<2, 2, 3, 1>> }

\* The store of an array of the given shape whose pixels (groups of the last
\* axis) have the base colour, except pixel mildAt, of the close colour, and
\* pixel harshAt, of the far colour (-1: no such pixel).
DataOf(shape, mildAt, harshAt) ==
  LET c == shape[Len(shape)]
  IN [i \in 1..Prod(shape) |->
        LET px == (i - 1) \div c
        IN ChanVal(IF px = harshAt THEN 2 ELSE IF px = mildAt THEN 1 ELSE 0, (i - 1) % c)]

NumPixels(shape) ==
  IF shape[Len(shape)] = 0 THEN 0 ELSE Prod(shape) \div shape[Len(shape)]

DepthArgs == ((0 - 1) .. MaxDepthArg) \cup {INF}
StdDevArgs == {0 - 1, 0, 1}

Init ==
  /\ \E shape \in Shapes3D \cup ShapesOther :
       \E mildAt \in (0 - 1) .. (NumPixels(shape) - 1) :
         \E harshAt \in (0 - 1) .. (NumPixels(shape) - 1) :
           /\ mildAt = 0 - 1 \/ mildAt # harshAt
           /\ raster = [shape |-> shape, data |-> DataOf(shape, mildAt, harshAt)]
  /\ orig = raster.data
  /\ max_depth \in DepthArgs
  /\ max_std_dev \in StdDevArgs
  /\ phase = "new"
  /\ pending = <<>>
  /\ nodes = << >>
  /\ written = {}
  /\ hl = 0
  /\ height_ret = NoRet

----------------------------------------------------------------------------
(* QuadTree.__init__ *)

ValidShape(shape) == Len(shape) = 3

\* len(raster.shape) != 3: self.root = None
InitInvalid ==
  /\ phase = "new"
  /\ ~ValidShape(raster.shape)
  /\ nodes' = (<<>> :> NoneNode([r0 |-> 0, nr |-> 0, c0 |-> 0, nc |-> 0]))
  /\ phase' = "built"
  /\ UNCHANGED <<raster, orig, max_depth, max_std_dev, pending, written, hl, height_ret>>

\* self.root = QuadTree.construct(raster, max_depth, max_std_dev): the call is made.
InitValid ==
  /\ phase = "new"
  /\ ValidShape(raster.shape)
  /\ pending' = << [path |-> <<>>, reg |-> Whole(raster.shape), max_depth |-> max_depth] >>
  /\ phase' = "constructing"
  /\ UNCHANGED <<raster, orig, max_depth, max_std_dev, nodes, written, hl, height_ret>>

----------------------------------------------------------------------------
(* QuadTree.construct, one call per step *)

\* Faulty variant: raster.shape[0] == 0, the columns and channels not looked at.
IsEmpty_rows(shape, reg) == reg.nr = 0

\* raster.size == 0
IsEmpty(shape, reg) == ViewSize(shape, reg) = 0

\* Faulty variant: max_depth < 0.
DepthExhausted_lt(d) == d < 0

\* max_depth <= 0
DepthExhausted(d) == d <= 0

\* max_depth - 1
Dec(d) == IF d = INF THEN INF ELSE d - 1

\* The second base case of construct.
IsLeafCase(a, f) ==
  DepthExhausted(f.max_depth) \/ check_homogeneity(a, f.reg, max_std_dev)

\* The calls an internal node makes, q1..q4.
ChildCalls(f) ==
  [k \in 1..4 |->
     [path |-> Append(f.path, k - 1), reg |-> (Quadrants(f.reg))[k],
      max_depth |-> Dec(f.max_depth)]]

Return(rest) ==
  /\ pending' = rest
  /\ phase' = IF rest = <<>> THEN "built" ELSE "constructing"

ConstructNone ==
  /\ phase = "constructing"
  /\ pending # <<>>
  /\ LET f == Head(pending) IN
       /\ IsEmpty(raster.shape, f.reg)
       /\ nodes' = (f.path :> NoneNode(f.reg)) @@ nodes
  /\ Return(Tail(pending))
  /\ UNCHANGED <<raster, orig, max_depth, max_std_dev, written, hl, height_ret>>

ConstructLeaf ==
  /\ phase = "constructing"
  /\ pending # <<>>
  /\ LET f == Head(pending) IN
       /\ ~IsEmpty(raster.shape, f.reg)
       /\ IsLeafCase(raster, f)
       /\ raster' = [raster EXCEPT !.data = LeafNode_init(raster, f.reg)]
       /\ written' = written \cup LeafNode_writes(raster, f.reg)
       /\ nodes' = (f.path :> LeafNode(f.reg)) @@ nodes
  /\ Return(Tail(pending))
  /\ UNCHANGED <<orig, max_depth, max_std_dev, hl, height_ret>>

ConstructSplit ==
  /\ phase = "constructing"
  /\ pending # <<>>
  /\ LET f == Head(pending) IN
       /\ ~IsEmpty(raster.shape, f.reg)
       /\ ~IsLeafCase(raster, f)
       /\ Len(f.path) < MaxRecursion
       /\ nodes' = (f.path :> InternalNode(f.reg)) @@ nodes
       /\ Return(ChildCalls(f) \o Tail(pending))
  /\ UNCHANGED <<raster, orig, max_depth, max_std_dev, written, hl, height_ret>>

Construct == ConstructNone \/ ConstructLeaf \/ ConstructSplit

----------------------------------------------------------------------------
(* Operations on the constructed tree *)

HighlightLeaves ==
  /\ phase = "built"
  /\ hl < MaxHighlights
  /\ raster' = [raster EXCEPT !.data = highlight_leaves(nodes, raster.shape, raster.data)]
  /\ hl' = hl + 1
  /\ UNCHANGED <<orig, max_depth, max_std_dev, phase, pending, nodes, written, height_ret>>

GetHeight ==
  /\ phase = "built"
  /\ height_ret' = get_height(nodes)
  /\ UNCHANGED <<raster, orig, max_depth, max_std_dev, phase, pending, nodes, written, hl>>

Next ==
  \/ InitInvalid
  \/ InitValid
  \/ ConstructNone
  \/ ConstructLeaf
  \/ ConstructSplit
  \/ HighlightLeaves
  \/ GetHeight

Spec == Init /\ [][Next]_vars

\* A 3-dimensional raster, max_depth a non-negative integer or INF, and a
\* non-negative max_std_dev.
WellFormedInput == ValidShape(raster.shape) /\ max_depth >= 0 /\ max_std_dev >= 0

\* Construction alone, on such arguments.  The constructor is synchronous: a
\* call of construct that was made runs.
LiveInit == Init /\ WellFormedInput

LiveNext == InitValid \/ ConstructNone \/ ConstructLeaf \/ ConstructSplit

LiveSpec == LiveInit /\ [][LiveNext]_vars /\ WF_vars(LiveNext)

----------------------------------------------------------------------------
(* Vocabulary of the properties *)

Built == phase = "built"

NonEmpty3D == ValidShape(raster.shape) /\ Prod(raster.shape) # 0

\* The raster as it was passed to QuadTree().
Original == [shape |-> raster.shape, data |-> orig]

Leaves == { p \in DOMAIN nodes : nodes[p].kind = "LeafNode" }
Internals == { p \in DOMAIN nodes : nodes[p].kind = "InternalNode" }

RootIsLeaf == <<>> \in DOMAIN nodes /\ nodes[<<>>].kind = "LeafNode"
RootIsNone == <<>> \in DOMAIN nodes /\ nodes[<<>>].kind = "None"

\* Length in edges of the longest path from the root to a leaf.
LongestPath == IF Leaves = {} THEN 0 ELSE Max({ Len(p) : p \in Leaves })

AllChannels == 0 .. (raster.shape[3] - 1)

----------------------------------------------------------------------------
\* C1: after construction, every pixel of every leaf region of more than one
\* pixel (single rows and single columns included) holds, in each of its
\* first 3 channels, the mean of that channel over the leaf's original
\* pixels (as the integer store holds it).
C1_LeafPixelsHoldMean ==
  (Built /\ NonEmpty3D /\ hl = 0) =>
    \A p \in Leaves :
      LET reg == nodes[p].reg IN
        reg.nr * reg.nc > 1 =>
          \A px \in Pixels(reg), ch \in ColorChannels :
            raster.data[Index(raster.shape, px[1], px[2], ch)] = StoredMean(Original, reg, ch)

----------------------------------------------------------------------------
\* C2: the leaf regions of one construction are pairwise disjoint and their
\* union is the set of all pixels of the buffer; absent quadrants hold no
\* pixel.
C2_LeavesPartitionBuffer ==
  (Built /\ NonEmpty3D) =>
    /\ \A px \in Pixels(Whole(raster.shape)) :
         Cardinality({ p \in Leaves : px \in Pixels(nodes[p].reg) }) = 1
    /\ \A p \in Leaves : Pixels(nodes[p].reg) \subseteq Pixels(Whole(raster.shape))
    /\ \A p \in DOMAIN nodes : nodes[p].kind = "None" => Pixels(nodes[p].reg) = {}

C2_Witness ==
  /\ Built
  /\ NonEmpty3D
  /\ Cardinality(Leaves) >= 5
  /\ \E p \in DOMAIN nodes : nodes[p].kind = "None"
  /\ \E p \in Leaves : nodes[p].reg.nr * nodes[p].reg.nc > 1

----------------------------------------------------------------------------
\* C3: for a non-negative integer max_depth no leaf lies more than max_depth
\* edges below the root, and get_height() <= max_depth.
C3_DepthBound ==
  (Built /\ NonEmpty3D /\ max_depth >= 0 /\ max_depth # INF) =>
    /\ \A p \in Leaves : Len(p) <= max_depth
    /\ height_ret # NoRet => height_ret <= max_depth

C3_Witness ==
  /\ Built
  /\ NonEmpty3D
  /\ max_depth = 2
  /\ height_ret = 2
  /\ \E p \in Leaves : Len(p) = max_depth
  /\ \E p \in Leaves : Len(p) = max_depth /\ ~check_homogeneity(Original, nodes[p].reg, max_std_dev)

----------------------------------------------------------------------------
\* C4: get_height() returns the length of the longest root-to-leaf path; on
\* a non-empty 3-dimensional buffer it is >= 0, and it is 0 exactly when the
\* root is a leaf, which is exactly when max_depth <= 0 or the whole buffer
\* is homogeneous.
C4_HeightIsLongestPath ==
  (Built /\ height_ret # NoRet) =>
    /\ height_ret = LongestPath
    /\ height_ret >= 0
    /\ NonEmpty3D =>
         /\ (height_ret = 0) <=> RootIsLeaf
         /\ RootIsLeaf <=>
              (max_depth <= 0 \/ check_homogeneity(Original, Whole(raster.shape), max_std_dev))

C4_Witness ==
  /\ Built
  /\ NonEmpty3D
  /\ height_ret = 2
  /\ \E p \in Leaves : Len(p) = 1
  /\ \E p \in DOMAIN nodes : Len(p) = 2 /\ nodes[p].kind = "None"

----------------------------------------------------------------------------
\* C5: highlight_leaves() is idempotent: a second or later call leaves the
\* buffer as the first call left it, and no call changes the tree.
C5_HighlightIdempotent ==
  [][ /\ (hl >= 1 /\ hl' = hl + 1) => raster' = raster
      /\ (hl' # hl) => nodes' = nodes ]_vars

C5_Witness ==
  /\ Built
  /\ hl = 2
  /\ Cardinality(Leaves) >= 2
  /\ raster.data # orig
  /\ \E i \in DOMAIN raster.data : orig[i] # 0 /\ raster.data[i] = 0

----------------------------------------------------------------------------
\* C6: on a buffer that is not 3-dimensional or has no elements, construction
\* completes with an absent root, get_height() returns 0, highlight_leaves()
\* does nothing, and the buffer is never changed.
InvalidInput == ~ValidShape(raster.shape) \/ Prod(raster.shape) = 0

C6_InvalidInputGivesEmptyTree ==
  InvalidInput =>
    /\ raster.data = orig
    /\ written = {}
    /\ phase = "constructing" => ENABLED ConstructNone
    /\ Built => (RootIsNone /\ DOMAIN nodes = {<<>>})
    /\ height_ret \in {NoRet, 0}

C6_Witness ==
  /\ Built
  /\ ~ValidShape(raster.shape)
  /\ Len(orig) > 0
  /\ hl >= 1
  /\ height_ret = 0

----------------------------------------------------------------------------
\* C7: on a 4-channel buffer neither construction nor any highlight_leaves()
\* call changes the 4th channel of a pixel.
C7_AlphaUntouched ==
  (ValidShape(raster.shape) /\ raster.shape[3] = 4) =>
    \A i \in DOMAIN raster.data :
      (i - 1) % 4 \notin ColorChannels => raster.data[i] = orig[i]

C7_Witness ==
  /\ Built
  /\ ValidShape(raster.shape)
  /\ raster.shape[3] = 4
  /\ hl >= 1
  /\ \E p \in Leaves :
       /\ NeedsAveraging(nodes[p].reg)
       /\ \E px \in Pixels(nodes[p].reg), py \in Pixels(nodes[p].reg) :
            /\ orig[Index(raster.shape, px[1], px[2], 3)] # orig[Index(raster.shape, py[1], py[2], 3)]
            /\ orig[Index(raster.shape, px[1], px[2], 0)] # raster.data[Index(raster.shape, px[1], px[2], 0)]

----------------------------------------------------------------------------
----------------------------------------------------------------------------
\* C9: an internal node has 4 child slots, in the order top-left, top-right,
\* bottom-left, bottom-right, of which 1 to 4 are present; a slot is absent
\* exactly when its quadrant has no pixels, which is when the parent region
\* has one row (bottom slots) or one column (right slots); leaf regions have
\* at least one pixel in each dimension.
SlotAbsent(p, i) == nodes[Append(p, i)].kind = "None"

C9_InternalNodeSlots ==
  (Built /\ NonEmpty3D) =>
    /\ \A p \in Internals :
         LET reg == nodes[p].reg
             q == [i \in 0..3 |-> nodes[Append(p, i)].reg]
         IN /\ \A i \in 0..3 : Append(p, i) \in DOMAIN nodes
            /\ Cardinality({ i \in 0..3 : ~SlotAbsent(p, i) }) \in 1..4
            /\ \A i \in 0..3 :
                 /\ SlotAbsent(p, i) <=> (q[i].nr * q[i].nc = 0)
                 /\ SlotAbsent(p, i) <=>
                      ((i \in {2, 3} /\ reg.nr = 1) \/ (i \in {1, 3} /\ reg.nc = 1))
            /\ q[0].r0 = reg.r0 /\ q[0].c0 = reg.c0
            /\ q[1].r0 = reg.r0 /\ q[1].c0 = reg.c0 + q[0].nc
            /\ q[2].r0 = reg.r0 + q[0].nr /\ q[2].c0 = reg.c0
            /\ q[3].r0 = reg.r0 + q[0].nr /\ q[3].c0 = reg.c0 + q[0].nc
            /\ q[0].nr + q[2].nr = reg.nr /\ q[1].nr = q[0].nr /\ q[3].nr = q[2].nr
            /\ q[0].nc + q[1].nc = reg.nc /\ q[2].nc = q[0].nc /\ q[3].nc = q[1].nc
    /\ \A p \in Leaves : nodes[p].reg.nr >= 1 /\ nodes[p].reg.nc >= 1

C9_Witness ==
  /\ Built
  /\ NonEmpty3D
  /\ \E p \in Internals : Cardinality({ i \in 0..3 : ~SlotAbsent(p, i) }) = 2
  /\ \E p \in Internals : Cardinality({ i \in 0..3 : ~SlotAbsent(p, i) }) = 4
  /\ \E p \in Internals : nodes[p].reg.nr = 3 /\ nodes[p].reg.nc = 2

----------------------------------------------------------------------------
\* C10: when check_homogeneity runs on a region, no cell of the region has
\* been written by leaf averaging, the region holds the original values and
\* the test gives what it gives on the input buffer.
HomogeneityTestDue ==
  /\ phase = "constructing"
  /\ pending # <<>>
  /\ ~IsEmpty(raster.shape, Head(pending).reg)
  /\ ~DepthExhausted(Head(pending).max_depth)

C10_HomogeneityOnOriginalPixels ==
  HomogeneityTestDue =>
    LET reg == Head(pending).reg IN
      /\ Cells(raster.shape, reg, AllChannels) \cap written = {}
      /\ \A i \in Cells(raster.shape, reg, AllChannels) : raster.data[i] = orig[i]
      /\ check_homogeneity(raster, reg, max_std_dev)
           <=> check_homogeneity(Original, reg, max_std_dev)

C10_Witness ==
  /\ HomogeneityTestDue
  /\ written # {}
  /\ raster.data # orig
  /\ ~check_homogeneity(raster, Head(pending).reg, max_std_dev)

====
